---- MODULE Spec2Model ----
(***************************************************************************)
(* A model of DoubleKeyTable (src/double_key_table.py): an outer           *)
(* open-addressed array of (key1, inner table) slots, each inner table a   *)
(* LinearProbeTable keyed by key2.  Arrays are sequences; Python index i   *)
(* is position i + 1.  Keys are sequences of character codes.              *)
(***************************************************************************)
EXTENDS Integers, Sequences, FiniteSets, TLC

\* ------------------------------------------------------------------ bounds
\* operations performed on one table in a run
MaxOps == 5
\* the entries the stack of collect_all_mountains can hold
MaxStack == 6
\* sets and deletes on a table that is also read
MaxReadOps == 3
\* sets and deletes on a table whose ladder repeats sizes
MaxRepeatedOps == 4
\* add_mountains calls on one organiser
MaxAdds == 3
\* the largest table capacity hashed into
MaxCapacity == 8

\* ------------------------------------------------------- program constants
HASH_BASE == 31
HASH_A == 31415

\* Python's None as an array slot, and None as a stored value
None == <<>>
NoneVal == 0

\* ------------------------------------------------------------- input sets
\* first keys "a", "c", "e" and second keys "x", "z"
K1 == { <<97>>, <<99>>, <<101>> }
K2 == { <<120>>, <<122>> }
\* stored values: None and 1
Values == { NoneVal, 1 }
\* outer ladders (sizes=...) and inner ladders (internal_sizes=...)
Ladders == { <<2>>, <<2, 3, 4>> }
InnerLadders == { <<2, 5>> }

\* ---------------------------------------------------------------- hashing
\* the loop of hash1 / hash2 over the characters of key, from position i;
\* "ZeroDivisionError" is Python's error for `% (table_size - 1)` at size 1
RECURSIVE HashLoop(_, _, _, _, _)
HashLoop(key, i, value, a, size) ==
    IF i > Len(key) THEN [err |-> "ok", idx |-> value]
    ELSE IF size = 1 THEN [err |-> "ZeroDivisionError", idx |-> 0]
    ELSE HashLoop(key, i + 1, (key[i] + a * value) % size,
                  (a * HASH_BASE) % (size - 1), size)

ArrayR(n) == [i \in 1 .. n |-> None]

\* ------------------------------------------- LinearProbeTable (inner table)
LinearProbeTable(sizes) == [array |-> ArrayR(sizes[1]), count |-> 0, size_index |-> 0]

hash2(key, sub_table) == HashLoop(key, 1, 0, HASH_A, Len(sub_table.array))

RECURSIVE LptProbeLoop(_, _, _, _, _)
LptProbeLoop(lpt, key, is_insert, position, n) ==
    IF n = 0 THEN [err |-> IF is_insert THEN "FullError" ELSE "KeyError", idx |-> 0]
    ELSE IF lpt.array[position + 1] = None
         THEN IF is_insert THEN [err |-> "ok", idx |-> position]
              ELSE [err |-> "KeyError", idx |-> 0]
    ELSE IF lpt.array[position + 1][1] = key THEN [err |-> "ok", idx |-> position]
    ELSE LptProbeLoop(lpt, key, is_insert, (position + 1) % Len(lpt.array), n - 1)

Lpt_linear_probe(lpt, key, is_insert) ==
    LET h == hash2(key, lpt)
    IN  IF h.err # "ok" THEN h
        ELSE LptProbeLoop(lpt, key, is_insert, h.idx, Len(lpt.array))

LptGet(lpt, key) ==
    LET p == Lpt_linear_probe(lpt, key, FALSE)
    IN  IF p.err # "ok" THEN [err |-> p.err, val |-> NoneVal]
        ELSE [err |-> "ok", val |-> lpt.array[p.idx + 1][2]]

\* keys() / values(): the occupied slots in array order
RECURSIVE LptItems(_, _)
LptItems(arr, i) ==
    IF i > Len(arr) THEN <<>>
    ELSE IF arr[i] = None THEN LptItems(arr, i + 1)
    ELSE <<arr[i]>> \o LptItems(arr, i + 1)

LptKeys(lpt) == LET it == LptItems(lpt.array, 1) IN [j \in 1 .. Len(it) |-> it[j][1]]
LptValues(lpt) == LET it == LptItems(lpt.array, 1) IN [j \in 1 .. Len(it) |-> it[j][2]]

LptIsEmpty(lpt) == lpt.count = 0
LptIsFull(lpt) == lpt.count = Len(lpt.array)

RECURSIVE LptSet(_, _, _, _)
RECURSIVE LptReinsert(_, _, _, _)

\* _rehash of the inner table: next size of the ladder, every item set again
LptRehash(lpt, sizes) ==
    LET si == lpt.size_index + 1
    IN  IF si >= Len(sizes) THEN [err |-> "ok", lpt |-> [lpt EXCEPT !.size_index = si]]
        ELSE LptReinsert([array |-> ArrayR(sizes[si + 1]), count |-> 0, size_index |-> si],
                         LptItems(lpt.array, 1), 1, sizes)

LptReinsert(lpt, items, j, sizes) ==
    IF j > Len(items) THEN [err |-> "ok", lpt |-> lpt]
    ELSE LET r == LptSet(lpt, items[j][1], items[j][2], sizes)
         IN  IF r.err # "ok" THEN r ELSE LptReinsert(r.lpt, items, j + 1, sizes)

LptSet(lpt, key, data, sizes) ==
    LET p == Lpt_linear_probe(lpt, key, TRUE)
    IN  IF p.err # "ok" THEN [err |-> p.err, lpt |-> lpt]
        ELSE LET cnt == IF lpt.array[p.idx + 1] = None THEN lpt.count + 1 ELSE lpt.count
                 w == [lpt EXCEPT !.array[p.idx + 1] = <<key, data>>, !.count = cnt]
             IN  IF 2 * cnt > Len(w.array) THEN LptRehash(w, sizes)
                 ELSE [err |-> "ok", lpt |-> w]

\* delete: clear the slot, then re-place the cluster that follows it
RECURSIVE LptDelCluster(_, _)
LptDelCluster(lpt, position) ==
    IF lpt.array[position + 1] = None THEN lpt
    ELSE LET kv == lpt.array[position + 1]
             cleared == [lpt EXCEPT !.array[position + 1] = None]
             np == Lpt_linear_probe(cleared, kv[1], TRUE)
             placed == [cleared EXCEPT !.array[np.idx + 1] = kv]
         IN  LptDelCluster(placed, (position + 1) % Len(lpt.array))

LptDel(lpt, key) ==
    LET p == Lpt_linear_probe(lpt, key, FALSE)
    IN  IF p.err # "ok" THEN [err |-> p.err, lpt |-> lpt]
        ELSE [err |-> "ok",
              lpt |-> LptDelCluster([lpt EXCEPT !.array[p.idx + 1] = None,
                                               !.count = lpt.count - 1],
                                    (p.idx + 1) % Len(lpt.array))]

\* ----------------------------------------------------------- DoubleKeyTable
VARIABLES TABLE_SIZES, internal_sizes, array, count, size_index, last, stored, deleted, nops,
          hashed, walk, iht, organiser

vars == <<TABLE_SIZES, internal_sizes, array, count, size_index, last, stored, deleted, nops,
          hashed, walk, iht, organiser>>

\* the mutable fields of the table, as one value
Self == [array |-> array, count |-> count, size_index |-> size_index]

table_size(t) == Len(t.array)

hash1(t, key) == HashLoop(key, 1, 0, HASH_A, table_size(t))

\* the probing loop of _linear_probe, n iterations left; the result carries
\* the table, which an insert into an empty slot has changed
RECURSIVE ProbeLoop(_, _, _, _, _, _)
ProbeLoop(t, key1, key2, is_insert, index1, n) ==
    IF n = 0
    THEN \* `self[index1]` unpacks an int as a key pair
         IF is_insert THEN [err |-> "TypeError", t |-> t, outer |-> -1, inner |-> -1]
         ELSE [err |-> "ok", t |-> t, outer |-> -1, inner |-> -1]
    ELSE IF t.array[index1 + 1] = None
    THEN IF is_insert
         THEN LET inner_lpt == LinearProbeTable(internal_sizes)
                  t2 == [t EXCEPT !.count = t.count + 1,
                                  !.array[index1 + 1] = <<key1, inner_lpt>>]
                  h == hash2(key2, inner_lpt)
              IN  [err |-> h.err, t |-> t2, outer |-> index1, inner |-> h.idx]
         ELSE [err |-> "KeyError", t |-> t, outer |-> -1, inner |-> -1]
    ELSE IF t.array[index1 + 1][1] = key1
    THEN LET p == Lpt_linear_probe(t.array[index1 + 1][2], key2, is_insert)
         IN  [err |-> p.err, t |-> t, outer |-> index1, inner |-> p.idx]
    ELSE ProbeLoop(t, key1, key2, is_insert, (index1 + 1) % table_size(t), n - 1)

linear_probe(t, key1, key2, is_insert) ==
    LET h == hash1(t, key1)
    IN  IF h.err # "ok" THEN [err |-> h.err, t |-> t, outer |-> -1, inner |-> -1]
        ELSE ProbeLoop(t, key1, key2, is_insert, h.idx, table_size(t))

\* the slots the loop of _linear_probe examines in looking for key1, n
\* iterations left
RECURSIVE ProbeVisits(_, _, _, _)
ProbeVisits(t, key1, index1, n) ==
    IF n = 0 THEN 0
    ELSE IF t.array[index1 + 1] = None THEN 1
    ELSE IF t.array[index1 + 1][1] = key1 THEN 1
    ELSE 1 + ProbeVisits(t, key1, (index1 + 1) % table_size(t), n - 1)

\* a probe that goes round the array twice
probe_visits_twice(t, key1) ==
    LET h == hash1(t, key1)
    IN  IF h.err # "ok" THEN 0
        ELSE ProbeVisits(t, key1, h.idx, 2 * table_size(t))

probe_visits(t, key1) ==
    LET h == hash1(t, key1)
    IN  IF h.err # "ok" THEN 0
        ELSE ProbeVisits(t, key1, h.idx, table_size(t))

\* __getitem__ reading the inner table at key1's hash1 index instead of the
\* probed index (as values() does on line 235)
getitem_home(t, key1, key2) ==
    LET p == linear_probe(t, key1, key2, FALSE)
        h == hash1(t, key1)
    IN  IF p.err # "ok" THEN [err |-> p.err, val |-> NoneVal]
        ELSE IF p.outer = -1 \/ t.array[h.idx + 1] = None
        THEN [err |-> "TypeError", val |-> NoneVal]
        ELSE LptGet(t.array[h.idx + 1][2], key2)

\* __getitem__; outer = -1 is the (None, None) of an exhausted lookup, and
\* indexing the array with None is a TypeError
getitem(t, key1, key2) ==
    LET p == linear_probe(t, key1, key2, FALSE)
    IN  IF p.err # "ok" THEN [err |-> p.err, val |-> NoneVal]
        ELSE IF p.outer = -1 THEN [err |-> "TypeError", val |-> NoneVal]
        ELSE LptGet(t.array[p.outer + 1][2], key2)

\* __contains__: only KeyError is caught
contains(t, key1, key2) ==
    LET g == getitem(t, key1, key2)
    IN  IF g.err = "ok" THEN [err |-> "ok", val |-> TRUE]
        ELSE IF g.err = "KeyError" THEN [err |-> "ok", val |-> FALSE]
        ELSE [err |-> g.err, val |-> FALSE]

RECURSIVE setitem(_, _, _, _)
RECURSIVE RehashLoop(_, _, _, _)

\* the re-insertion loop of _rehash: slot i of old_array, inner key j
RehashLoop(t, old_array, i, j) ==
    IF i > Len(old_array) THEN [err |-> "ok", t |-> t]
    ELSE IF old_array[i] = None THEN RehashLoop(t, old_array, i + 1, 1)
    ELSE LET lpt == old_array[i][2]
             inner_keys == LptKeys(lpt)
         IN  IF j > Len(inner_keys) THEN RehashLoop(t, old_array, i + 1, 1)
             ELSE LET r == setitem(t, old_array[i][1], inner_keys[j],
                                   LptGet(lpt, inner_keys[j]).val)
                  IN  IF r.err # "ok" THEN r
                      ELSE RehashLoop(r.t, old_array, i, j + 1)

\* _rehash without `self.count = 0`
rehash_keepcount(t) ==
    LET si == t.size_index + 1
    IN  IF si >= Len(TABLE_SIZES) THEN [err |-> "ok", t |-> [t EXCEPT !.size_index = si]]
        ELSE RehashLoop([array |-> ArrayR(TABLE_SIZES[si + 1]), count |-> t.count,
                         size_index |-> si],
                        t.array, 1, 1)

\* _rehash raising FullError when the ladder is exhausted
rehash_raising(t) ==
    LET si == t.size_index + 1
    IN  IF si >= Len(TABLE_SIZES) THEN [err |-> "FullError", t |-> t]
        ELSE RehashLoop([array |-> ArrayR(TABLE_SIZES[si + 1]), count |-> 0, size_index |-> si],
                        t.array, 1, 1)

rehash(t) ==
    LET si == t.size_index + 1
    IN  IF si >= Len(TABLE_SIZES) THEN [err |-> "ok", t |-> [t EXCEPT !.size_index = si]]
        ELSE RehashLoop([array |-> ArrayR(TABLE_SIZES[si + 1]), count |-> 0, size_index |-> si],
                        t.array, 1, 1)

\* the table right after the write of __setitem__, before the resize test
setwrite(t, key1, key2, data) ==
    LET p == linear_probe(t, key1, key2, TRUE)
    IN  IF p.err # "ok" THEN [err |-> p.err, t |-> p.t]
        ELSE LET w == LptSet(p.t.array[p.outer + 1][2], key2, data, internal_sizes)
             IN  IF w.err # "ok" THEN [err |-> w.err, t |-> p.t]
                 ELSE [err |-> "ok", t |-> [p.t EXCEPT !.array[p.outer + 1][2] = w.lpt]]

\* __setitem__ testing the load it had before the write
setitem_loadbefore(t, key1, key2, data) ==
    LET w == setwrite(t, key1, key2, data)
    IN  IF w.err # "ok" THEN w
        ELSE IF 2 * t.count > table_size(t) THEN rehash(w.t)
        ELSE w

setitem(t, key1, key2, data) ==
    LET w == setwrite(t, key1, key2, data)
    IN  IF w.err # "ok" THEN w
        ELSE IF 2 * w.t.count > table_size(w.t) THEN rehash(w.t)
        ELSE w

delitem(t, key1, key2) ==
    LET p == linear_probe(t, key1, key2, FALSE)
    IN  IF p.err # "ok" THEN [err |-> p.err, t |-> t]
        ELSE IF p.outer = -1 THEN [err |-> "TypeError", t |-> t]
        ELSE LET inner_lpt == t.array[p.outer + 1][2]
                 g == LptGet(inner_lpt, key2)
             IN  IF g.err # "ok" THEN [err |-> g.err, t |-> t]
                 ELSE IF g.val = NoneVal THEN [err |-> "KeyError", t |-> t]
                 ELSE LET d == LptDel(inner_lpt, key2)
                      IN  IF d.err # "ok" THEN [err |-> d.err, t |-> t]
                          ELSE IF LptIsEmpty(d.lpt)
                          THEN [err |-> "ok",
                                t |-> [t EXCEPT !.array[p.outer + 1] = None,
                                                !.count = t.count - 1]]
                          ELSE [err |-> "ok",
                                t |-> [t EXCEPT !.array[p.outer + 1][2] = d.lpt]]

len(t) == t.count

\* keys() with no argument: the first keys in outer-array order
RECURSIVE keysFrom(_, _)
keysFrom(arr, i) ==
    IF i > Len(arr) THEN <<>>
    ELSE IF arr[i] = None THEN keysFrom(arr, i + 1)
    ELSE <<arr[i][1]>> \o keysFrom(arr, i + 1)

keys(t) == keysFrom(t.array, 1)

\* ------------------------------------------------ keys / values by first key
\* a result of keys / values: a list (none = FALSE), or the None that the
\* method returns when its loop ends without a return (none = TRUE)
Listed(seq) == [err |-> "ok", none |-> FALSE, val |-> seq]
Raised(e) == [err |-> e, none |-> FALSE, val |-> <<>>]
ReturnedNone == [err |-> "ok", none |-> TRUE, val |-> <<>>]

\* the loop of keys(key) and iter_keys(key): the keys of the inner table of
\* the probed slot
RECURSIVE KeysLoop(_, _, _, _, _)
KeysLoop(t, key, index, n, exhausted) ==
    IF n = 0 THEN exhausted
    ELSE IF t.array[index + 1] = None THEN Raised("KeyError")
    ELSE IF t.array[index + 1][1] = key THEN Listed(LptKeys(t.array[index + 1][2]))
    ELSE KeysLoop(t, key, (index + 1) % table_size(t), n - 1, exhausted)

\* keys(key) with a first key
keys1(t, key) ==
    LET h == hash1(t, key)
    IN  IF h.err # "ok" THEN Raised(h.err)
        ELSE KeysLoop(t, key, h.idx, Len(t.array), ReturnedNone)

\* iter_keys(key) with a first key, consumed to the end: a generator whose
\* loop ends has yielded nothing
iter_keys1(t, key) ==
    LET h == hash1(t, key)
    IN  IF h.err # "ok" THEN Raised(h.err)
        ELSE KeysLoop(t, key, h.idx, Len(t.array), Listed(<<>>))

\* keys() and iter_keys() with no argument
keys0(t) == Listed(keys(t))

iter_keys0(t) == Listed(keys(t))

\* the loop of values(key) and iter_values(key); inner_lpt was read before
\* the loop, at the hash1 index
RECURSIVE ValuesLoop(_, _, _, _, _, _)
ValuesLoop(t, key, inner_lpt, outer_index, n, exhausted) ==
    IF n = 0 THEN exhausted
    ELSE IF t.array[outer_index + 1] = None THEN Raised("KeyError")
    ELSE IF t.array[outer_index + 1][1] = key THEN Listed(LptValues(inner_lpt))
    ELSE ValuesLoop(t, key, inner_lpt, (outer_index + 1) % table_size(t), n - 1, exhausted)

\* values(key) with a first key; subscripting the None of an empty slot on
\* line 235 is a TypeError
values1(t, key) ==
    LET h == hash1(t, key)
    IN  IF h.err # "ok" THEN Raised(h.err)
        ELSE IF t.array[h.idx + 1] = None THEN Raised("TypeError")
        ELSE ValuesLoop(t, key, t.array[h.idx + 1][2], h.idx, Len(t.array), ReturnedNone)

iter_values1(t, key) ==
    LET h == hash1(t, key)
    IN  IF h.err # "ok" THEN Raised(h.err)
        ELSE IF t.array[h.idx + 1] = None THEN Raised("TypeError")
        ELSE ValuesLoop(t, key, t.array[h.idx + 1][2], h.idx, Len(t.array), Listed(<<>>))

\* values() and iter_values() with no argument: every inner table's values,
\* in outer-array order
RECURSIVE valuesFrom(_, _)
valuesFrom(arr, i) ==
    IF i > Len(arr) THEN <<>>
    ELSE IF arr[i] = None THEN valuesFrom(arr, i + 1)
    ELSE LptValues(arr[i][2]) \o valuesFrom(arr, i + 1)

values0(t) == Listed(valuesFrom(t.array, 1))

iter_values0(t) == Listed(valuesFrom(t.array, 1))

\* ------------------------------------------------------- InfiniteHashTable
TABLE_SIZE == 27

\* "ab", "ac" (one slot at level 0) and "b"
IKeys == { <<97, 98>>, <<97, 99>>, <<98>> }

\* __init__; a slot is None or <<d>>, d the dict it holds
InfiniteHashTable == [level |-> 0, table |-> [i \in 0 .. TABLE_SIZE - 1 |-> None]]

iht_hash(h, key) ==
    IF h.level < Len(key) THEN key[h.level + 1] % (TABLE_SIZE - 1)
    ELSE TABLE_SIZE - 1

iht_getitem(h, key) ==
    LET index == iht_hash(h, key)
    IN  IF h.table[index] = None THEN [err |-> "KeyError", val |-> NoneVal]
        ELSE IF key \notin DOMAIN h.table[index][1] THEN [err |-> "KeyError", val |-> NoneVal]
        ELSE [err |-> "ok", val |-> h.table[index][1][key]]

\* the slots hold None or a dict, so the sub-table branch (lines 63-69) is
\* never taken
iht_setitem(h, key, value) ==
    LET index == iht_hash(h, key)
        d == IF h.table[index] = None THEN << >> ELSE h.table[index][1]
    IN  [h EXCEPT !.table[index] =
            << [k \in DOMAIN d \cup { key } |-> IF k = key THEN value ELSE d[k]] >>]

iht_delitem(h, key) ==
    LET index == iht_hash(h, key)
    IN  IF h.table[index] = None THEN [err |-> "KeyError", h |-> h]
        ELSE IF key \notin DOMAIN h.table[index][1] THEN [err |-> "KeyError", h |-> h]
        ELSE LET d == h.table[index][1]
                 rest == [k \in DOMAIN d \ { key } |-> d[k]]
             IN  IF Cardinality(DOMAIN rest) = 1
                 THEN [err |-> "ok",
                       h |-> [h EXCEPT !.table[index] = None, !.level = h.level + 1]]
                 ELSE [err |-> "ok", h |-> [h EXCEPT !.table[index] = <<rest>>]]

RECURSIVE iht_lenFrom(_, _)
iht_lenFrom(h, i) ==
    IF i = TABLE_SIZE THEN 0
    ELSE (IF h.table[i] = None THEN 0 ELSE Cardinality(DOMAIN h.table[i][1]))
         + iht_lenFrom(h, i + 1)

iht_len(h) == iht_lenFrom(h, 0)

\* -------------------------------------------------------------------- Trail
Mountains == { 1, 2 }

\* a Trail is its store: None, a TrailSeries or a TrailSplit
TrailNone == [kind |-> "none"]

TrailSeries(mountain, following) ==
    [kind |-> "series", mountain |-> mountain, following |-> following]

TrailSplit(top, bottom, following) ==
    [kind |-> "split", top |-> top, bottom |-> bottom, following |-> following]

\* the trails of at most two levels
FlatTrails ==
    { TrailNone, TrailSplit(TrailNone, TrailNone, TrailNone) }
        \cup { TrailSeries(m, TrailNone) : m \in Mountains }

Trails ==
    FlatTrails
        \cup { TrailSeries(m, f) : m \in Mountains, f \in FlatTrails }
        \cup { TrailSplit(a, b, f) : a \in FlatTrails, b \in FlatTrails, f \in FlatTrails }

\* the number of mountains m on a trail
RECURSIVE OnTrail(_, _)
OnTrail(store, m) ==
    IF store.kind = "series"
    THEN (IF store.mountain = m THEN 1 ELSE 0) + OnTrail(store.following, m)
    ELSE IF store.kind = "split"
    THEN OnTrail(store.top, m) + OnTrail(store.bottom, m) + OnTrail(store.following, m)
    ELSE 0

\* the number of times m is in a list of mountains
RECURSIVE InList(_, _)
InList(list, m) ==
    IF list = <<>> THEN 0
    ELSE (IF Head(list) = m THEN 1 ELSE 0) + InList(Tail(list), m)

\* trails with a split inside the top branch of a split
SeriesOrNone == { TrailNone } \cup { TrailSeries(m, TrailNone) : m \in Mountains }

NestedTrails ==
    { TrailSplit(TrailSplit(a, b, f), c, g) :
          a \in SeriesOrNone, b \in SeriesOrNone, f \in SeriesOrNone,
          c \in SeriesOrNone, g \in SeriesOrNone }

\* what personality.select_branch returns
PersonalityDecision == { "TOP", "BOTTOM", "STOP" }

\* the locals of follow_path at the head of its loop; added is the list of
\* the mountains passed to personality.add_mountain, decisions the list of
\* the branches selected
FollowStart(store) ==
    [pc |-> "loop", trail |-> store, current |-> store, trails |-> <<>>,
     added |-> <<>>, decisions |-> <<>>]

\* the loop body of follow_path pushing nothing at a split
FollowIterationNoPush(w, decision) ==
    LET popped == w.current.kind = "none"
        current == IF popped THEN Head(w.trails) ELSE w.current
        stack == IF popped THEN Tail(w.trails) ELSE w.trails
    IN  IF current.kind = "series"
        THEN [w EXCEPT !.added = Append(w.added, current.mountain),
                       !.current = current.following,
                       !.trails = stack]
        ELSE IF current.kind = "split"
        THEN IF decision = "STOP"
             THEN [w EXCEPT !.pc = "done", !.current = current, !.trails = stack,
                            !.decisions = Append(w.decisions, decision)]
             ELSE [w EXCEPT !.current = IF decision = "TOP" THEN current.top
                                        ELSE current.bottom,
                            !.trails = stack,
                            !.decisions = Append(w.decisions, decision)]
        ELSE [w EXCEPT !.current = current, !.trails = stack]

\* one iteration of the loop of follow_path, decision being what
\* select_branch returns if it is called; the stack has its top first
FollowIteration(w, decision) ==
    LET popped == w.current.kind = "none"
        current == IF popped THEN Head(w.trails) ELSE w.current
        stack == IF popped THEN Tail(w.trails) ELSE w.trails
    IN  IF current.kind = "series"
        THEN [w EXCEPT !.added = Append(w.added, current.mountain),
                       !.current = current.following,
                       !.trails = stack]
        ELSE IF current.kind = "split"
        THEN LET pushed == IF current.following.kind # "none"
                           THEN <<current.following>> \o stack ELSE stack
             IN  IF decision = "STOP"
                 THEN [w EXCEPT !.pc = "done", !.current = current, !.trails = pushed,
                                !.decisions = Append(w.decisions, decision)]
                 ELSE [w EXCEPT !.current = IF decision = "TOP" THEN current.top
                                            ELSE current.bottom,
                                !.trails = pushed,
                                !.decisions = Append(w.decisions, decision)]
        ELSE [w EXCEPT !.current = current, !.trails = stack]

\* the walked path: the mountains met from store on when the splits are
\* decided by ds in turn; it ends at STOP and where ds runs out
RECURSIVE WalkedPath(_, _)
WalkedPath(store, ds) ==
    IF store.kind = "series"
    THEN LET r == WalkedPath(store.following, ds)
         IN  [r EXCEPT !.mountains = <<store.mountain>> \o @]
    ELSE IF store.kind = "split"
    THEN IF ds = <<>> \/ Head(ds) = "STOP"
         THEN [mountains |-> <<>>, ds |-> IF ds = <<>> THEN ds ELSE Tail(ds), ended |-> TRUE]
         ELSE LET branch == WalkedPath(IF Head(ds) = "TOP" THEN store.top ELSE store.bottom,
                                       Tail(ds))
              IN  IF branch.ended THEN branch
                  ELSE LET rest == WalkedPath(store.following, branch.ds)
                       IN  [rest EXCEPT !.mountains = branch.mountains \o @]
    ELSE [mountains |-> <<>>, ds |-> ds, ended |-> FALSE]

\* the locals of collect_all_mountains at the head of its loop
CollectStart(store) ==
    [pc |-> "loop", trail |-> store, current |-> store, trails_to_visit |-> <<>>,
     mountains |-> <<>>]

\* one iteration of the loop of collect_all_mountains; the stack is a
\* sequence with its top first, and a stack past MaxStack entries is
\* Python running out of memory
CollectIteration(w) ==
    LET popped == w.current.kind = "none"
        current == IF popped THEN Head(w.trails_to_visit) ELSE w.current
        stack == IF popped THEN Tail(w.trails_to_visit) ELSE w.trails_to_visit
    IN  IF current.kind = "series"
        THEN [w EXCEPT !.mountains = Append(w.mountains, current.mountain),
                       !.current = current.following,
                       !.trails_to_visit = stack]
        ELSE IF current.kind = "split"
        THEN LET pushed == <<current.bottom, current.top>>
                             \o (IF current.following.kind # "none"
                                 THEN <<current.following>> ELSE <<>>)
                             \o stack
             IN  IF Len(pushed) > MaxStack
                 THEN [w EXCEPT !.pc = "MemoryError", !.current = current]
                 ELSE [w EXCEPT !.current = current, !.trails_to_visit = pushed]
        ELSE [w EXCEPT !.pc = "done", !.current = current, !.trails_to_visit = stack]

\* -------------------------------------------------------- MountainOrganiser
\* mountains named a, b, c of difficulty 1 or 2 and length 1 or 2
MountainPool ==
    [name : { "a", "b", "c" }, difficulty_level : { 1, 2 }, length : { 1, 2 }]

\* the lists passed to add_mountains: one or two mountains
MountainLists ==
    { <<m>> : m \in MountainPool } \cup { <<m, n>> : m \in MountainPool, n \in MountainPool }

\* __init__; order (the names in the order they were first added) and
\* skipped (a name was offered again) are history
MountainOrganiser ==
    [mountains |-> <<>>, mountain_dict |-> <<>>, order |-> <<>>, skipped |-> FALSE]

\* (difficulty_level, length) of m below that of n, as Python orders tuples
KeyLess(m, n) ==
    \/ m.difficulty_level < n.difficulty_level
    \/ m.difficulty_level = n.difficulty_level /\ m.length < n.length

cur_position(o, mountain) ==
    IF mountain.name \notin DOMAIN o.mountain_dict THEN [err |-> "KeyError", val |-> 0]
    ELSE [err |-> "ok", val |-> o.mountain_dict[mountain.name]]

\* the binary search of _find_insert_position
RECURSIVE FindLoop(_, _, _, _)
FindLoop(mountains, mountain, left, right) ==
    IF left < right
    THEN LET mid == (left + right) \div 2
         IN  IF KeyLess(mountains[mid + 1], mountain)
             THEN FindLoop(mountains, mountain, mid + 1, right)
             ELSE FindLoop(mountains, mountain, left, mid)
    ELSE left

find_insert_position(o, mountain) == FindLoop(o.mountains, mountain, 0, Len(o.mountains))

\* bisect.insort_left with the key (difficulty_level, length): x goes before
\* the first element whose key is not below its own
insort_left(a, x) ==
    LET below == { i \in 1 .. Len(a) : \A j \in 1 .. i : KeyLess(a[j], x) }
        n == Cardinality(below)
    IN  [i \in 1 .. Len(a) + 1 |->
            IF i <= n THEN a[i] ELSE IF i = n + 1 THEN x ELSE a[i - 1]]

\* _update_dict writing the position of the mountain at index only
update_dict_one(o, index) ==
    [k \in DOMAIN o.mountain_dict \cup { o.mountains[index + 1].name } |->
        IF k = o.mountains[index + 1].name THEN index ELSE o.mountain_dict[k]]

\* _update_dict: the positions of the mountains from index on
update_dict(o, index) ==
    LET moved == { i \in index .. Len(o.mountains) - 1 : TRUE }
        names == { o.mountains[i + 1].name : i \in moved }
    IN  [k \in DOMAIN o.mountain_dict \cup names |->
            IF k \in names
            THEN CHOOSE i \in moved :
                     /\ o.mountains[i + 1].name = k
                     /\ \A j \in moved : o.mountains[j + 1].name = k => j <= i
            ELSE o.mountain_dict[k]]

\* the loop of add_mountains over the list, from its element n
RECURSIVE AddLoop(_, _, _)
AddLoop(o, mountains, n) ==
    IF n > Len(mountains) THEN o
    ELSE LET mountain == mountains[n]
         IN  IF mountain.name \in DOMAIN o.mountain_dict
             THEN AddLoop([o EXCEPT !.skipped = TRUE], mountains, n + 1)
             ELSE LET index == find_insert_position(o, mountain)
                      o2 == [o EXCEPT !.mountains = insort_left(o.mountains, mountain),
                                      !.order = Append(o.order, mountain.name)]
                  IN  AddLoop([o2 EXCEPT !.mountain_dict = update_dict(o2, index)],
                              mountains, n + 1)

add_mountains(o, mountains) == AddLoop(o, mountains, 1)

\* ------------------------------------------------------------ state machine
\* __setitem__ and __delitem__ are the actions; __getitem__, __contains__,
\* keys and __len__ assign nothing and are the operators above, applied to
\* the state.
\* last, stored and deleted are history variables: the last operation with
\* its outcome (si is size_index before it), the value last set under each
\* pair by a set that returned, as <<value>> (<<>> after a delete that
\* returned), and whether any delete has returned

Pairs == K1 \X K2

\* DoubleKeyTable(sizes, internal_sizes), and the history of a new table
Construct(sizes, inner_sizes) ==
    /\ TABLE_SIZES = sizes
    /\ internal_sizes = inner_sizes
    /\ size_index = 0
    /\ count = 0
    /\ array = ArrayR(TABLE_SIZES[1])
    /\ last = [op |-> "init", key1 |-> <<>>, key2 |-> <<>>, err |-> "ok", val |-> NoneVal, si |-> 0]
    /\ stored = [p \in Pairs |-> <<>>]
    /\ deleted = FALSE
    /\ nops = 0

\* no hash computed, no traversal under way
NoHash == [fn |-> "none", key |-> <<>>, err |-> "ok", idx |-> 0]

NoWalk ==
    [pc |-> "idle", trail |-> TrailNone, current |-> TrailNone, trails_to_visit |-> <<>>,
     mountains |-> <<>>]

Init ==
    /\ \E sizes \in Ladders, inner_sizes \in InnerLadders : Construct(sizes, inner_sizes)
    /\ hashed = NoHash
    /\ walk = NoWalk
    /\ iht = InfiniteHashTable
    /\ organiser = MountainOrganiser

Install(t) ==
    /\ array' = t.array
    /\ count' = t.count
    /\ size_index' = t.size_index
    /\ UNCHANGED <<TABLE_SIZES, internal_sizes, hashed, walk, iht, organiser>>

Set(key1, key2, data) ==
    LET r == setitem(Self, key1, key2, data)
    IN  /\ nops < MaxOps
        /\ nops' = nops + 1
        /\ Install(r.t)
        /\ last' = [op |-> "set", key1 |-> key1, key2 |-> key2, err |-> r.err,
                    val |-> data, si |-> size_index]
        /\ stored' = IF r.err = "ok" THEN [stored EXCEPT ![<<key1, key2>>] = <<data>>] ELSE stored
        /\ UNCHANGED deleted

\* __delitem__ going back to the first ladder size when the table empties
DeleteShrinking(key1, key2) ==
    LET r == delitem(Self, key1, key2)
        t == IF r.t.count = 0
             THEN [array |-> ArrayR(TABLE_SIZES[1]), count |-> 0, size_index |-> 0]
             ELSE r.t
    IN  /\ nops < MaxOps
        /\ nops' = nops + 1
        /\ Install(t)
        /\ last' = [op |-> "delete", key1 |-> key1, key2 |-> key2, err |-> r.err,
                    val |-> NoneVal, si |-> size_index]
        /\ stored' = IF r.err = "ok" THEN [stored EXCEPT ![<<key1, key2>>] = <<>>] ELSE stored
        /\ deleted' = (deleted \/ r.err = "ok")

Delete(key1, key2) ==
    LET r == delitem(Self, key1, key2)
    IN  /\ nops < MaxOps
        /\ nops' = nops + 1
        /\ Install(r.t)
        /\ last' = [op |-> "delete", key1 |-> key1, key2 |-> key2, err |-> r.err,
                    val |-> NoneVal, si |-> size_index]
        /\ stored' = IF r.err = "ok" THEN [stored EXCEPT ![<<key1, key2>>] = <<>>] ELSE stored
        /\ deleted' = (deleted \/ r.err = "ok")

Next ==
    \/ \E key1 \in K1, key2 \in K2, data \in Values : Set(key1, key2, data)
    \/ \E key1 \in K1, key2 \in K2 : Delete(key1, key2)

Spec == Init /\ [][Next]_vars

\* tables whose inner tables start at capacity 1
TinyInnerLadders == { <<1>>, <<1, 3>> }

InitTiny ==
    /\ \E sizes \in Ladders, inner_sizes \in TinyInnerLadders : Construct(sizes, inner_sizes)
    /\ hashed = NoHash
    /\ walk = NoWalk
    /\ iht = InfiniteHashTable
    /\ organiser = MountainOrganiser

SpecTiny == InitTiny /\ [][Next]_vars

\* hash1 and hash2 applied to a key, on tables of every capacity up to
\* MaxCapacity: "", "a", "z", "az", "za", "zz"
HashKeys == { <<>>, <<97>>, <<122>>, <<97, 122>>, <<122, 97>>, <<122, 122>> }

InitHash ==
    /\ \E size \in 1 .. MaxCapacity : Construct(<<size>>, <<size>>)
    /\ hashed \in { [NoHash EXCEPT !.key = key] : key \in HashKeys }
    /\ walk = NoWalk
    /\ iht = InfiniteHashTable
    /\ organiser = MountainOrganiser

Hash1 ==
    LET h == hash1(Self, hashed.key)
    IN  /\ hashed' = [fn |-> "hash1", key |-> hashed.key, err |-> h.err, idx |-> h.idx]
        /\ UNCHANGED <<TABLE_SIZES, internal_sizes, array, count, size_index, last, stored,
                       deleted, nops, walk, iht, organiser>>

Hash2 ==
    LET h == hash2(hashed.key, LinearProbeTable(internal_sizes))
    IN  /\ hashed' = [fn |-> "hash2", key |-> hashed.key, err |-> h.err, idx |-> h.idx]
        /\ UNCHANGED <<TABLE_SIZES, internal_sizes, array, count, size_index, last, stored,
                       deleted, nops, walk, iht, organiser>>

NextHash ==
    \/ Hash1
    \/ Hash2

SpecHash == InitHash /\ [][NextHash]_vars

\* collect_all_mountains on a trail, one loop iteration at a time
InitTrail ==
    /\ \E sizes \in Ladders, inner_sizes \in InnerLadders : Construct(sizes, inner_sizes)
    /\ hashed = NoHash
    /\ walk \in { CollectStart(store) : store \in Trails }
    /\ iht = InfiniteHashTable
    /\ organiser = MountainOrganiser

\* the loop condition holds: the body runs once
CollectStep ==
    /\ walk.pc = "loop"
    /\ walk.current.kind # "none" \/ Len(walk.trails_to_visit) > 0
    /\ walk' = CollectIteration(walk)
    /\ UNCHANGED <<TABLE_SIZES, internal_sizes, array, count, size_index, last, stored,
                   deleted, nops, hashed, iht, organiser>>

\* the loop condition fails: return mountains
CollectReturn ==
    /\ walk.pc = "loop"
    /\ walk.current.kind = "none" /\ Len(walk.trails_to_visit) = 0
    /\ walk' = [walk EXCEPT !.pc = "done"]
    /\ UNCHANGED <<TABLE_SIZES, internal_sizes, array, count, size_index, last, stored,
                   deleted, nops, hashed, iht, organiser>>

NextTrail ==
    \/ CollectStep
    \/ CollectReturn

SpecTrail == InitTrail /\ [][NextTrail]_vars

\* an InfiniteHashTable under sets and deletes
InitIHT ==
    /\ \E sizes \in Ladders, inner_sizes \in InnerLadders : Construct(sizes, inner_sizes)
    /\ hashed = NoHash
    /\ walk = NoWalk
    /\ iht = InfiniteHashTable
    /\ organiser = MountainOrganiser

IhtSet(key, value) ==
    /\ nops < MaxOps
    /\ nops' = nops + 1
    /\ iht' = iht_setitem(iht, key, value)
    /\ last' = [op |-> "iht_set", key1 |-> key, key2 |-> <<>>, err |-> "ok",
                val |-> value, si |-> 0]
    /\ UNCHANGED <<TABLE_SIZES, internal_sizes, array, count, size_index, stored, deleted,
                   hashed, walk, organiser>>

IhtDelete(key) ==
    LET r == iht_delitem(iht, key)
    IN  /\ nops < MaxOps
        /\ nops' = nops + 1
        /\ iht' = r.h
        /\ last' = [op |-> "iht_delete", key1 |-> key, key2 |-> <<>>, err |-> r.err,
                    val |-> NoneVal, si |-> 0]
        /\ UNCHANGED <<TABLE_SIZES, internal_sizes, array, count, size_index, stored, deleted,
                       hashed, walk, organiser>>

NextIHT ==
    \/ \E key \in IKeys, value \in Values : IhtSet(key, value)
    \/ \E key \in IKeys : IhtDelete(key)

SpecIHT == InitIHT /\ [][NextIHT]_vars

\* a table under sets and deletes (at most MaxReadOps of them) and under the
\* read operations, which are not counted; of a read the history keeps the
\* operation and whether it raised
Read(t, op, err) ==
    /\ Install(t)
    /\ last' = [op |-> op, key1 |-> <<>>, key2 |-> <<>>, err |-> err, val |-> NoneVal,
                si |-> size_index]
    /\ UNCHANGED <<stored, deleted, nops>>

\* __getitem__ probing as an insert does
getitem_table_inserting(t, key1, key2) == linear_probe(t, key1, key2, TRUE).t

\* the table that __getitem__ leaves: the one its _linear_probe call leaves
getitem_table(t, key1, key2) == linear_probe(t, key1, key2, FALSE).t

Get(key1, key2) ==
    Read(getitem_table(Self, key1, key2), "get", getitem(Self, key1, key2).err)

\* __contains__, through __getitem__
Contains(key1, key2) ==
    Read(getitem_table(Self, key1, key2), "contains", contains(Self, key1, key2).err)

\* keys, values, iter_keys, iter_values: key is None or a first key; the
\* methods assign no field of the table
Keys(key) ==
    Read(Self, "keys", IF key = None THEN keys0(Self).err ELSE keys1(Self, key).err)

Values_(key) ==
    Read(Self, "values", IF key = None THEN values0(Self).err ELSE values1(Self, key).err)

IterKeys(key) ==
    Read(Self, "iter_keys",
         IF key = None THEN iter_keys0(Self).err ELSE iter_keys1(Self, key).err)

IterValues(key) ==
    Read(Self, "iter_values",
         IF key = None THEN iter_values0(Self).err ELSE iter_values1(Self, key).err)

Len_ ==
    Read(Self, "len", "ok")

ReadOps == { "get", "contains", "keys", "values", "iter_keys", "iter_values", "len" }

NextReads ==
    \/ nops < MaxReadOps /\ \E key1 \in K1, key2 \in K2, data \in Values : Set(key1, key2, data)
    \/ nops < MaxReadOps /\ \E key1 \in K1, key2 \in K2 : Delete(key1, key2)
    \/ \E key1 \in K1, key2 \in K2 : Get(key1, key2)
    \/ \E key1 \in K1, key2 \in K2 : Contains(key1, key2)
    \/ \E key \in K1 \cup { None } : Keys(key)
    \/ \E key \in K1 \cup { None } : Values_(key)
    \/ \E key \in K1 \cup { None } : IterKeys(key)
    \/ \E key \in K1 \cup { None } : IterValues(key)
    \/ Len_

SpecReads == Init /\ [][NextReads]_vars

\* tables on ladders with repeated sizes
RepeatedLadders == { <<2, 2>>, <<2, 2, 2, 4>> }

InitRepeated ==
    /\ \E sizes \in RepeatedLadders, inner_sizes \in InnerLadders :
           Construct(sizes, inner_sizes)
    /\ hashed = NoHash
    /\ walk = NoWalk
    /\ iht = InfiniteHashTable
    /\ organiser = MountainOrganiser

NextRepeated ==
    \/ nops < MaxRepeatedOps /\ \E key1 \in K1, key2 \in K2, data \in Values : Set(key1, key2, data)
    \/ nops < MaxRepeatedOps /\ \E key1 \in K1, key2 \in K2 : Delete(key1, key2)

SpecRepeated == InitRepeated /\ [][NextRepeated]_vars

\* follow_path on a trail, one loop iteration at a time, the personality
\* deciding freely at every split
InitFollow ==
    /\ \E sizes \in Ladders, inner_sizes \in InnerLadders : Construct(sizes, inner_sizes)
    /\ hashed = NoHash
    /\ walk \in { FollowStart(store) : store \in Trails \cup NestedTrails }
    /\ iht = InfiniteHashTable
    /\ organiser = MountainOrganiser

\* the loop condition holds: the body runs once
FollowStep(decision) ==
    /\ walk.pc = "loop"
    /\ walk.current.kind # "none" \/ Len(walk.trails) > 0
    /\ walk' = FollowIteration(walk, decision)
    /\ UNCHANGED <<TABLE_SIZES, internal_sizes, array, count, size_index, last, stored,
                   deleted, nops, hashed, iht, organiser>>

\* the loop condition fails: follow_path returns
FollowReturn ==
    /\ walk.pc = "loop"
    /\ walk.current.kind = "none" /\ Len(walk.trails) = 0
    /\ walk' = [walk EXCEPT !.pc = "done"]
    /\ UNCHANGED <<TABLE_SIZES, internal_sizes, array, count, size_index, last, stored,
                   deleted, nops, hashed, iht, organiser>>

NextFollow ==
    \/ \E decision \in PersonalityDecision : FollowStep(decision)
    \/ FollowReturn

\* the loop runs without suspension until it returns
SpecFollow == InitFollow /\ [][NextFollow]_vars /\ WF_vars(NextFollow)

\* a MountainOrganiser under add_mountains
AddMountains(mountains) ==
    /\ nops < MaxAdds
    /\ nops' = nops + 1
    /\ organiser' = add_mountains(organiser, mountains)
    /\ UNCHANGED <<TABLE_SIZES, internal_sizes, array, count, size_index, last, stored,
                   deleted, hashed, walk, iht>>

NextOrganiser ==
    \E mountains \in MountainLists : AddMountains(mountains)

SpecOrganiser == Init /\ [][NextOrganiser]_vars

\* ------------------------------------------------------ what a state holds
Occupied(arr) == { i \in 1 .. Len(arr) : arr[i] # None }

\* the slots of the outer array that hold first key key1
SlotsOf(t, key1) == { i \in Occupied(t.array) : t.array[i][1] = key1 }

\* the pairs some inner table holds under a slot of their first key
Content(t) ==
    { p \in Pairs : \E i \in SlotsOf(t, p[1]) : LptGet(t.array[i][2], p[2]).err = "ok" }

RECURSIVE SumInner(_, _)
SumInner(arr, i) ==
    IF i > Len(arr) THEN 0
    ELSE (IF arr[i] = None THEN 0 ELSE arr[i][2].count) + SumInner(arr, i + 1)

Present == { p \in Pairs : stored[p] # <<>> }

LastOk(op) == last.op = op /\ last.err = "ok"

Resized == last.si + 1 < Len(TABLE_SIZES) /\ size_index > last.si

\* ------------------------------------------------------------------ claims

\* C1: round trip.  While only sets have been made, get of every pair set
\* returns the value last set for it; right after a delete that returned,
\* get of the deleted pair raises KeyError and contains is False.
C1_RoundTrip ==
    /\ ~deleted =>
         \A p \in Present : getitem(Self, p[1], p[2]) = [err |-> "ok", val |-> stored[p][1]]
    /\ LastOk("delete") =>
         /\ getitem(Self, last.key1, last.key2).err = "KeyError"
         /\ contains(Self, last.key1, last.key2) = [err |-> "ok", val |-> FALSE]

C1_Witness ==
    /\ LastOk("delete")
    /\ Cardinality(Present) >= 2
    /\ \E p \in Present : p[1] = last.key1

\* C2: len(table) is the number of stored pairs, the sum of the inner
\* tables' occupancies.
C2_LenIsTotalPairs == len(Self) = SumInner(array, 1)

\* C3: no two occupied outer slots hold the same first key.
C3_OneSlotPerFirstKey ==
    \A i, j \in Occupied(array) : array[i][1] = array[j][1] => i = j

\* C4: a delete that returns leaves every other retrievable pair
\* retrievable with its value.
C4_DeleteFrame ==
    [][LastOk("delete")' =>
         \A p \in Pairs \ { <<last'.key1, last'.key2>> } :
             getitem(Self, p[1], p[2]).err = "ok" =>
                 getitem(Self', p[1], p[2]) = getitem(Self, p[1], p[2])]_vars

\* C5: a delete that removes the last pair held under key1 clears key1's
\* slot, lowers count by 1 and takes key1 out of keys(); a delete that
\* leaves other pairs under key1 changes neither the slots nor count.
C5_CascadingCleanup ==
    [][LastOk("delete")' =>
         LET key1 == last'.key1
         IN  IF { p \in Content(Self') : p[1] = key1 } = {}
             THEN /\ SlotsOf(Self', key1) = {}
                  /\ count' = count - 1
                  /\ \A j \in 1 .. Len(keys(Self')) : keys(Self')[j] # key1
             ELSE /\ Occupied(array') = Occupied(array)
                  /\ count' = count]_vars

\* C6: a set of a pair that is already held changes neither len, nor the
\* occupied outer slots, nor the number of pairs held under its first key.
C6_NoDuplication ==
    [][(LastOk("set")' /\ <<last'.key1, last'.key2>> \in Content(Self)) =>
         /\ len(Self') = len(Self)
         /\ Cardinality(Occupied(array')) = Cardinality(Occupied(array))
         /\ Cardinality(SlotsOf(Self', last'.key1)) = Cardinality(SlotsOf(Self, last'.key1))
         /\ SumInner(array', 1) = SumInner(array, 1)]_vars

\* C7: a set, made after sets only, whose write triggers a resize leaves
\* every pair set so far retrievable with its value, and len after the
\* resize is len right after the write.
C7_ResizePreserves ==
    [][(LastOk("set")' /\ ~deleted /\ Resized') =>
         /\ \A p \in Present' :
                getitem(Self', p[1], p[2]) = [err |-> "ok", val |-> stored'[p][1]]
         /\ len(Self') = len(setwrite(Self, last'.key1, last'.key2, last'.val).t)]_vars

C7_Witness ==
    /\ LastOk("set")
    /\ ~deleted
    /\ Resized
    /\ Len(array) > TABLE_SIZES[last.si + 1]
    /\ \E p, q \in Present : p[1] = q[1] /\ p[2] # q[2]
    /\ \E p, q \in Present : p[1] # q[1]

\* C8: after a set that returned, unless _rehash has run off the end of the
\* ladder, count is at most half the outer capacity.
C8_LoadFactor ==
    (LastOk("set") /\ size_index < Len(TABLE_SIZES)) => 2 * count <= Len(array)

\* a set that resized twice, the first new size being under twice the count
C8_Witness ==
    /\ LastOk("set")
    /\ size_index < Len(TABLE_SIZES)
    /\ size_index = last.si + 2
    /\ TABLE_SIZES[last.si + 2] < 2 * count

\* C9: a set under a first key not in a full outer array raises FullError
\* and leaves array, count and size_index as they were.
C9_FullRaisesFullError ==
    [][(last'.op = "set" /\ Occupied(array) = 1 .. Len(array)
          /\ SlotsOf(Self, last'.key1) = {}) =>
         /\ last'.err = "FullError"
         /\ Self' = Self]_vars

\* C10: in every state get of a pair that is not held raises KeyError, and
\* delete of a pair that is not held raises KeyError and leaves array, count
\* and size_index as they were.
C10_AbsentRaisesKeyError ==
    [][/\ \A p \in Pairs \ Content(Self') : getitem(Self', p[1], p[2]).err = "KeyError"
       /\ (last'.op = "delete" /\ <<last'.key1, last'.key2>> \notin Content(Self)) =>
            (last'.err = "KeyError" /\ Self' = Self)]_vars

\* C11: contains never fails, and is True exactly for the pairs held.
C11_ContainsTotal ==
    \A p \in Pairs :
        contains(Self, p[1], p[2]) = [err |-> "ok", val |-> p \in Content(Self)]

\* C12: for a first key held in one outer slot, keys(k1) is the list of
\* second keys and values(k1) the list of values of that slot's inner table.
C12_KeysValuesOfOwnSlot ==
    \A key1 \in K1 : \A i \in SlotsOf(Self, key1) :
        SlotsOf(Self, key1) = { i } =>
            /\ keys1(Self, key1) = Listed(LptKeys(array[i][2]))
            /\ values1(Self, key1) = Listed(LptValues(array[i][2]))

\* C13: keys(k1) and values(k1) raise KeyError for a first key no slot holds.
C13_AbsentFirstKeyRaisesKeyError ==
    \A key1 \in K1 :
        SlotsOf(Self, key1) = {} =>
            /\ keys1(Self, key1) = Raised("KeyError")
            /\ values1(Self, key1) = Raised("KeyError")

\* C14: iter_keys and iter_values, consumed, give what keys and values give,
\* for no argument and for every first key, errors included.
C14_StreamedEqualsListed ==
    /\ iter_keys0(Self) = keys0(Self)
    /\ iter_values0(Self) = values0(Self)
    /\ \A key1 \in K1 :
           /\ iter_keys1(Self, key1) = keys1(Self, key1)
           /\ iter_values1(Self, key1) = values1(Self, key1)

\* C15: a set or delete that raises leaves the outer array, the count and
\* every inner table as they were.
C15_NoPartialFailure ==
    [][ last'.err # "ok" => Self' = Self ]_vars

\* C16: for every string key and every capacity from 1 up, hash1 returns
\* without raising an index below the outer capacity, and hash2 one below
\* the inner capacity.
C16_HashInRange ==
    /\ hashed.fn = "hash1" => hashed.err = "ok" /\ hashed.idx \in 0 .. table_size(Self) - 1
    /\ hashed.fn = "hash2" => hashed.err = "ok" /\ hashed.idx \in 0 .. internal_sizes[1] - 1

\* C17: collect_all_mountains ends on every finite trail, never filling
\* its stack without end, and what it returns holds every mountain of the
\* trail exactly once.
C17_CollectAllMountains ==
    /\ walk.pc # "MemoryError"
    /\ walk.pc = "done" =>
           \A m \in Mountains : InList(walk.mountains, m) = OnTrail(walk.trail, m)

\* C18: InfiniteHashTable delete of a key that get finds removes that key
\* only: get of it then raises KeyError, every other key reads as before,
\* and len is one less; delete of any other key raises KeyError and changes
\* nothing.
C18_IhtDeleteExactlyOne ==
    [][ last'.op = "iht_delete" =>
            IF iht_getitem(iht, last'.key1).err = "ok"
            THEN /\ last'.err = "ok"
                 /\ iht_getitem(iht', last'.key1).err = "KeyError"
                 /\ \A k \in IKeys \ { last'.key1 } : iht_getitem(iht', k) = iht_getitem(iht, k)
                 /\ iht_len(iht') = iht_len(iht) - 1
            ELSE /\ last'.err = "KeyError"
                 /\ iht' = iht ]_vars

\* C19: a delete of a stored pair succeeds whatever its value, None
\* included; a delete raises KeyError only when the pair is not stored.
C19_DeleteStoredSucceeds ==
    [][ last'.op = "delete" =>
            /\ stored[<<last'.key1, last'.key2>>] # <<>> => last'.err = "ok"
            /\ last'.err = "KeyError" => stored[<<last'.key1, last'.key2>>] = <<>> ]_vars

\* C20: the outer capacity and size_index change only in a set, after its
\* write, when the load then exceeds one half; get, contains, keys, values,
\* iter_keys, iter_values and len leave the whole table as it was; delete
\* changes neither the outer capacity nor size_index.
C20_OnlySetResizes ==
    [][ /\ last'.op \in ReadOps => Self' = Self
        /\ last'.op = "delete" => Len(array') = Len(array) /\ size_index' = size_index
        /\ Len(array') # Len(array) \/ size_index' # size_index =>
               /\ last'.op = "set"
               /\ last'.err = "ok"
               /\ LET w == setwrite(Self, last'.key1, last'.key2, last'.val)
                  IN  /\ w.err = "ok"
                      /\ 2 * w.t.count > table_size(w.t)
                      /\ Self' = rehash(w.t).t ]_vars

\* a read of a table that a set has resized, and one of a table after a delete
C20_Witness ==
    /\ last.op \in ReadOps
    /\ Len(array) > TABLE_SIZES[1]
    /\ deleted

\* C21: size_index and the outer capacity never decrease, also when deletes
\* empty the table, and the capacity is always one of the ladder's sizes.
C21_NeverShrinks ==
    [][ /\ size_index' >= size_index
        /\ Len(array') >= Len(array)
        /\ \E i \in 1 .. Len(TABLE_SIZES) : Len(array') = TABLE_SIZES[i] ]_vars

\* a table that was resized and then emptied by deletes
C21_Witness ==
    /\ deleted
    /\ count = 0
    /\ Occupied(array) = {}
    /\ Len(array) > TABLE_SIZES[1]

\* C22: a set that takes the load over one half at the last ladder size
\* succeeds, and its _rehash leaves the array, the capacity and the count as
\* the write left them; any set made while an outer slot is free succeeds.
C22_SoftLimit ==
    [][ last'.op = "set" =>
            /\ (\E i \in 1 .. Len(array) : array[i] = None) => last'.err = "ok"
            /\ LET w == setwrite(Self, last'.key1, last'.key2, last'.val)
               IN  (/\ w.err = "ok"
                    /\ size_index + 1 >= Len(TABLE_SIZES)
                    /\ 2 * w.t.count > table_size(w.t))
                   => /\ last'.err = "ok"
                      /\ array' = w.t.array
                      /\ count' = w.t.count
                      /\ Len(array') = Len(array) ]_vars

\* two sets in a row met the exhausted ladder, a slot is still free, and the
\* last set succeeded
C22_Witness ==
    /\ last.op = "set"
    /\ last.err = "ok"
    /\ last.si >= Len(TABLE_SIZES)
    /\ size_index > last.si
    /\ 2 * count > Len(array)
    /\ \E i \in 1 .. Len(array) : array[i] = None

\* C23: count is the number of occupied outer slots, never negative and
\* never above the outer capacity.
C23_CountIsOccupancy ==
    /\ count = Cardinality(Occupied(array))
    /\ count >= 0
    /\ count <= Len(array)

\* after deletes and a resize, a table with some slots occupied and some not
C23_Witness ==
    /\ deleted
    /\ Len(array) > TABLE_SIZES[1]
    /\ count = 2
    /\ Cardinality(Occupied(array)) = 2

\* C24: every occupied outer slot owns an inner table that holds at least
\* one entry.
C24_NoOrphanedSlot ==
    \A i \in Occupied(array) : ~LptIsEmpty(array[i][2])

\* what an operation that has run to completion gives: a result or one of
\* Python's errors
Outcomes == { "ok", "KeyError", "FullError", "TypeError", "ZeroDivisionError" }

\* the index into the ladder of the capacity in use
LadderIndex(si) == IF si < Len(TABLE_SIZES) THEN si ELSE Len(TABLE_SIZES) - 1

Prefix(seq, n) == [i \in 1 .. n |-> seq[i]]

\* C26: follow_path ends on every trail, and the mountains it has passed to
\* add_mountain are at every moment the first ones of the walked path (the
\* chosen branch of a split before its following trail, nothing of the
\* other branch, nothing after STOP) and, when it has returned, all of them.
C26_FollowPath ==
    /\ [](LET path == WalkedPath(walk.trail, walk.decisions).mountains
          IN  /\ Len(walk.added) <= Len(path)
              /\ walk.added = Prefix(path, Len(walk.added))
              /\ walk.pc = "done" => walk.added = path)
    /\ <>(walk.pc = "done")

\* a walk that has returned after choosing a branch at a split inside a
\* split, with mountains in the branch and in both following trails
C26_Witness ==
    /\ walk.pc = "done"
    /\ Len(walk.decisions) = 2
    /\ walk.decisions[2] # "STOP"
    /\ Len(walk.added) = 3
    /\ walk.trail.following.kind = "series"
    /\ walk.trail.top.kind = "split"
    /\ walk.trail.top.following.kind = "series"

\* C27: self.mountains is sorted by (difficulty_level, length), holds each
\* name added once, and cur_position gives for each of its mountains the
\* index where it sits; for a name never added cur_position raises KeyError.
C27_SortedWithPositions ==
    LET ms == organiser.mountains
    IN  /\ \A i \in 1 .. Len(ms) : \A j \in i + 1 .. Len(ms) :
               /\ ~KeyLess(ms[j], ms[i])
               /\ ms[i].name # ms[j].name
        /\ \A i \in 1 .. Len(ms) : cur_position(organiser, ms[i]) = [err |-> "ok", val |-> i - 1]
        /\ { ms[i].name : i \in 1 .. Len(ms) } = { organiser.order[i] : i \in 1 .. Len(organiser.order) }
        /\ \A m \in MountainPool :
               (\A i \in 1 .. Len(organiser.order) : organiser.order[i] # m.name)
                   => cur_position(organiser, m).err = "KeyError"

\* the mountain added last sits first, before a mountain of its own
\* difficulty and length; the two added before it have moved up, and a name
\* was offered a second time
C27_Witness ==
    /\ Len(organiser.mountains) = 3
    /\ organiser.skipped
    /\ organiser.mountains[1].name = organiser.order[3]
    /\ organiser.mountains[1].difficulty_level = organiser.mountains[2].difficulty_level
    /\ organiser.mountains[1].length = organiser.mountains[2].length
    /\ cur_position(organiser, organiser.mountains[3]).val = 2

TypeOK ==
    /\ count \in 0 .. Len(array)
    /\ size_index \in Nat

====
